---- MODULE Spec2Model ----
(***************************************************************************)
(* Model of the TEI critical-apparatus resolution pipeline                 *)
(* (src/src/tei-processing/helpers.ts: Apparatus, Spine) together with the *)
(* process-wide store (src/unnamed/part_000: FvStoreClass).                *)
(*                                                                         *)
(* Strings are sequences of tokens (Seq(STRING)), so that split('#'),      *)
(* substr(2), the string-range regular expression, the 'tei:' patch and    *)
(* template literals are computed, not assumed.  An XML attribute is the   *)
(* set of its values: {} when the attribute is absent, {v} when present.   *)
(***************************************************************************)
EXTENDS Integers, Sequences, FiniteSets, TLC

\* ------------------------------------------------------------------ bounds
\* number of initialize() invocations made during one process lifetime
MaxCalls == 2
\* number of transport failures the network may produce for hosted documents
MaxFailures == 1

\* ----------------------------------------------------------------- strings
Digit == <<"0", "1", "2", "3", "4", "5", "6", "7", "8", "9">>

\* Number -> decimal string, as a template literal `${n}` formats it
RECURSIVE DecStr(_)
DecStr(n) == IF n < 10 THEN <<Digit[n + 1]>>
             ELSE DecStr(n \div 10) \o <<Digit[(n % 10) + 1]>>

IsDigits(tok) == tok \in {"0", "1", "2", "5", "10"}

\* String.prototype.split(sep) for a one-token separator
RECURSIVE Split(_, _)
Split(s, sep) ==
    IF \E i \in 1..Len(s) : s[i] = sep
    THEN LET i == CHOOSE i \in 1..Len(s) :
                      s[i] = sep /\ \A h \in 1..(i - 1) : s[h] # sep
         IN  <<SubSeq(s, 1, i - 1)>> \o Split(SubSeq(s, i + 1, Len(s)), sep)
    ELSE <<s>>

\* String.prototype.substr(n): the string without its first n characters
Substr(s, n) == SubSeq(s, n + 1, Len(s))

\* String.prototype.replace(/tok/g, '')
RECURSIVE ReplaceAll(_, _)
ReplaceAll(s, tok) ==
    IF s = <<>> THEN <<>>
    ELSE (IF Head(s) = tok THEN <<>> ELSE <<Head(s)>>) \o ReplaceAll(Tail(s), tok)

\* ------------------------------------------------------------------- DOM
\* A document is a record [apps, elems]: the <app> elements it contains (a
\* spine file) and its other elements (a witness file).
\*   <app>  : [id, n, ptrs]                 id, n attributes
\*   <ptr>  : [parent, wit, grp, grpId, target]
\*            parent = tag of the parent node, wit = the parent's wit
\*            attribute, grp = tag of the grandparent, grpId = its xml:id,
\*            target = the <ptr>'s target attribute
\*   element: [tag, id, appRef]             xml:id and app-ref attributes

\* doc.evaluate(xpath): the elements an xpath selects, in document order.
\* Two shapes of xpath occur: //tag and //*[@xml:id="..."]; an expression
\* that still carries the undeclared tei: prefix selects nothing.
evaluateXPath(doc, xpath) ==
    IF Len(xpath) >= 2 /\ xpath[1] = "//*[@xml:id=\"" /\ xpath[Len(xpath)] = "\"]"
    THEN {e \in 1..Len(doc.elems) :
              doc.elems[e].id = {SubSeq(xpath, 2, Len(xpath) - 1)}}
    ELSE IF Len(xpath) = 2 /\ xpath[1] = "//"
    THEN {e \in 1..Len(doc.elems) : doc.elems[e].tag = xpath[2]}
    ELSE {}

\* findElementByXmlId without its "more than one element" test
findFirstByXmlId(doc, xmlId) ==
    LET idResults == {e \in 1..Len(doc.elems) : doc.elems[e].id = {xmlId}}
    IN  IF idResults = {} THEN [ok |-> FALSE, el |-> 0]
        ELSE [ok |-> TRUE, el |-> CHOOSE e \in idResults : \A d \in idResults : e <= d]

\* findElementByXmlId: [ok, el]; ok = FALSE stands for the thrown Error
findElementByXmlId(doc, xmlId) ==
    LET xpath == <<"//*[@xml:id=\"">> \o xmlId \o <<"\"]">>
        idResults == evaluateXPath(doc, xpath)
    IN  IF Cardinality(idResults) = 0 THEN [ok |-> FALSE, el |-> 0]
        ELSE IF Cardinality(idResults) > 1 THEN [ok |-> FALSE, el |-> 0]
        ELSE [ok |-> TRUE, el |-> CHOOSE e \in idResults : TRUE]

\* ------------------------------------------------------------------ store
EditionCodes == {<<"1818">>, <<"1823">>, <<"1831">>, <<"Thomas">>, <<"MS">>}

\* FvStore.getEdition: editions.find(...) -- the edition, or undefined ({})
getEdition(code) == {ed \in EditionCodes : ed = code}

\* ----------------------------------------------------------------- parsing
\* PointerData; parsedTarget is a history field: the referencedTarget the
\* pointer was created with
NoPointer == [ptrElement |-> <<0, 0>>, edition |-> {}, groupId |-> <<>>,
              referencedUrl |-> <<>>, referencedTarget |-> <<>>,
              dereferenced |-> {}, parsedTarget |-> <<>>]

\* Apparatus.parsePointer; at = <<app index, ptr index>> identifies ptrElement
parsePointer(ptrElement, at) ==
    IF ptrElement.parent # "rdg" THEN [ok |-> FALSE, ptr |-> NoPointer]
    ELSE IF ptrElement.wit = {} THEN [ok |-> FALSE, ptr |-> NoPointer]
    ELSE
    LET witValue == CHOOSE v \in ptrElement.wit : TRUE
        editionCode == Substr(witValue, 2)
        edition == getEdition(editionCode)
    IN  IF ptrElement.grp # "rdgGrp" THEN [ok |-> FALSE, ptr |-> NoPointer]
        ELSE IF ptrElement.grpId = {} THEN [ok |-> FALSE, ptr |-> NoPointer]
        ELSE IF ptrElement.target = {} THEN [ok |-> FALSE, ptr |-> NoPointer]
        ELSE
        LET groupId == CHOOSE v \in ptrElement.grpId : TRUE
            targetValue == CHOOSE v \in ptrElement.target : TRUE
            parts == Split(targetValue, "#")
        IN  IF Len(parts) # 2 THEN [ok |-> FALSE, ptr |-> NoPointer]
            ELSE [ok |-> TRUE,
                  ptr |-> [ptrElement |-> at, edition |-> edition,
                           groupId |-> groupId,
                           referencedUrl |-> parts[1],
                           referencedTarget |-> parts[2],
                           dereferenced |-> {}, parsedTarget |-> parts[2]]]

\* new Apparatus(element): [ok, app, objs]; a = index of the <app> element.
\* app.pointers lists the pointer objects (by their index in objs) in order.
Apparatus(element, a) ==
    IF element.id = {} THEN [ok |-> FALSE, app |-> [id |-> <<>>, pointers |-> <<>>],
                             objs |-> <<>>]
    ELSE
    LET id == CHOOSE v \in element.id : TRUE
        ptrs == [p \in 1..Len(element.ptrs) |-> parsePointer(element.ptrs[p], <<a, p>>)]
    IN  IF \E p \in 1..Len(ptrs) : ~ptrs[p].ok
        THEN [ok |-> FALSE, app |-> [id |-> <<>>, pointers |-> <<>>], objs |-> <<>>]
        ELSE [ok |-> TRUE,
              app |-> [id |-> id, pointers |-> [p \in 1..Len(ptrs) |-> p]],
              objs |-> [p \in 1..Len(ptrs) |-> ptrs[p].ptr]]

NoApps == [apps |-> <<>>, objs |-> <<>>]

\* a parseApps that keeps the apparatuses built before the failing one
parseAppsPartial(doc) ==
    LET parsed == [a \in 1..Len(doc.apps) |-> Apparatus(doc.apps[a], a)]
        good == {n \in 0..Len(parsed) : \A a \in 1..n : parsed[a].ok}
        last == CHOOSE n \in good : \A m \in good : m <= n
    IN  [ok |-> last = Len(parsed),
         gen |-> [apps |-> [a \in 1..last |-> parsed[a].app],
                  objs |-> [a \in 1..last |-> parsed[a].objs]]]

\* The body of Spine.parseApps: [ok, gen]; gen = [apps, objs] is the array
\* of Apparatus objects and the PointerData objects they created; nothing is
\* assigned to this._apps when a constructor throws.
parseAppsOf(doc) ==
    LET parsed == [a \in 1..Len(doc.apps) |-> Apparatus(doc.apps[a], a)]
    IN  IF \E a \in 1..Len(parsed) : ~parsed[a].ok
        THEN [ok |-> FALSE, gen |-> NoApps]
        ELSE [ok |-> TRUE,
              gen |-> [apps |-> [a \in 1..Len(parsed) |-> parsed[a].app],
                       objs |-> [a \in 1..Len(parsed) |-> parsed[a].objs]]]

\* ---------------------------------------------------------- string ranges
\* a match that takes every target for a range expression
MatchAnything(target) == {[xpath |-> target, start |-> "0", length |-> "0"]}

\* ptr.referencedTarget.match(/^string-range\((?<xpath>.+),(?<start>\d+),(?<length>\d+)\)$/)
\* : {} when there is no match, else {[xpath, start, length]}
MatchStringRange(target) ==
    LET n == Len(target)
    IN  IF /\ n >= 7
           /\ target[1] = "string-range("
           /\ target[n] = ")"
           /\ IsDigits(target[n - 1])
           /\ target[n - 2] = ","
           /\ IsDigits(target[n - 3])
           /\ target[n - 4] = ","
        THEN {[xpath |-> SubSeq(target, 2, n - 5),
               start |-> target[n - 3], length |-> target[n - 1]]}
        ELSE {}

\* range.xpath.replace(/tei:/g, '')
PatchXPath(xpath) == ReplaceAll(xpath, "tei:")

\* `mock-id-${Spine.mockElementCount}`
MockId(count) == <<"mock-id-">> \o DecStr(count)

\* the value written to the <ptr>'s target attribute after a rewrite
\* (ptr.referencedTarget has already been assigned xmlId at that point)
RewrittenTarget(referencedUrl, referencedTarget, xmlId) ==
    referencedTarget \o <<"#">> \o xmlId

\* ---------------------------------------------------------------- network
\* chunks whose initialize() is invoked (FvStore.spines holds ten)
Chunks == {1, 2}
Calls == 1..MaxCalls

\* Spine.getXML: the url of a chunk's spine file
SpineUrl(chunkNumber) ==
    LET chunkStr == IF chunkNumber < 10 THEN <<"0">> \o DecStr(chunkNumber)
                    ELSE DecStr(chunkNumber)
    IN  <<"standoff_Spine/spine_C">> \o chunkStr \o <<".xml">>

W1 == <<"w1.xml">>
W2 == <<"w2.xml">>

El(tag, id) == [tag |-> tag, id |-> id, appRef |-> {}]

\* the witness files as served
WitnessDoc(url) ==
    IF url = W1
    THEN [apps |-> <<>>,
          elems |-> <<El("p", {<<"a">>}), El("q", {}),
                      El("r", {<<"d">>}), El("r", {<<"d">>})>>]
    ELSE [apps |-> <<>>, elems |-> <<El("q", {})>>]

Range(x) == <<"string-range(", "//", "tei:", x, ",", "0", ",", "10", ")">>

\* fragments of a <ptr> target: ids with one, no and two matching elements,
\* ranges selecting an element with an id, one without, two and none
Fragments == {<<"a">>, <<"zz">>, <<"d">>,
              Range("p"), Range("q"), Range("r"), Range("s")}

PtrWith(wit, grpId, target) ==
    [parent |-> "rdg", wit |-> {wit}, grp |-> "rdgGrp", grpId |-> {grpId},
     target |-> {target}]

Ptr(target) == PtrWith(<<"#", "f", "1818">>, <<"g1">>, target)

Target(url, fragment) == url \o <<"#">> \o fragment

App(id, ptrs) == [id |-> id, ptrs |-> ptrs]
SpineDoc(apps) == [apps |-> apps, elems |-> <<>>]

AnyTarget == {Target(W1, f) : f \in Fragments} \cup {Target(W2, Range("q"))}
FewTargets == {Target(W1, <<"a">>), Target(W1, Range("q")), Target(W2, Range("q"))}

\* spine files with a witness code of no edition, a one-character wit
\* attribute, and empty xml:id values; a target that begins with '#'
SpinesOdd ==
    {SpineDoc(<<App({<<"app1">>}, <<PtrWith(w, <<"g1">>, Target(W1, <<"a">>))>>)>>) :
        w \in {<<"#", "f", "1900">>, <<"#">>}}
    \cup {SpineDoc(<<App({<<>>}, <<Ptr(Target(W1, <<"a">>))>>)>>),
          SpineDoc(<<App({<<"app1">>},
                         <<PtrWith(<<"#", "f", "1818">>, <<>>, Target(W1, <<"a">>))>>)>>),
          SpineDoc(<<App({<<"app1">>}, <<Ptr(Target(<<>>, <<"a">>))>>)>>)}

\* spine files of chunk 1 when calls are made one after the other
SpinesInTurn ==
    {SpineDoc(<<App({<<"app1">>}, <<Ptr(t1), Ptr(t2), Ptr(t3)>>),
                App({<<"app2">>}, <<Ptr(t4)>>)>>) :
        t1 \in FewTargets, t2 \in AnyTarget, t3 \in FewTargets,
        t4 \in {Target(W1, <<"a">>), Target(W1, Range("q"))}}
    \cup {SpineDoc(<<App({<<"app1">>}, <<Ptr(Target(W1, <<"a">>))>>),
                     App({}, <<>>)>>),
          SpineDoc(<<App({<<"app1">>}, <<Ptr(W1 \o <<"a">>)>>)>>)}
    \cup SpinesOdd


\* spine files of chunk 1 when calls may overlap
SpinesOverlapped ==
    {SpineDoc(<<App({<<"app1">>}, <<Ptr(Target(W1, Range("q"))), Ptr(t2)>>),
                App({<<"app2">>}, <<Ptr(Target(W1, Range("q")))>>)>>) :
        t2 \in {Target(W1, Range("s")), Target(W1, <<"a">>)}}

\* spine files of chunk 2
Spines2 ==
    {SpineDoc(<<App({<<"app3">>}, <<Ptr(t)>>)>>) :
        t \in {Target(W1, <<"a">>), Target(W1, Range("q"))}}

\* what the network serves, and how the caller behaves: it awaits one
\* initialize() before it makes the next call, or (overlap) it makes a call
\* while one earlier call is still in progress
Worlds ==
    {[docs |-> (W1 :> WitnessDoc(W1)) @@ (W2 :> WitnessDoc(W2))
                 @@ (SpineUrl(1) :> s1) @@ (SpineUrl(2) :> s2),
      overlap |-> o] :
        s2 \in Spines2,
        <<s1, o>> \in (SpinesInTurn \X {FALSE}) \cup (SpinesOverlapped \X {TRUE})}

\* ------------------------------------------------------------------ state
VARIABLES
    served,            \* the documents the network hosts: url -> Document
    overlap,           \* the caller starts a call while another is suspended
    cache,             \* FvStore.cache: url -> Document (settled fetches)
    inflight,          \* urls with a fetch outstanding
    failures,          \* transport failures so far
    mockElementCount,  \* Spine.mockElementCount
    initialized,       \* Spine._initialized, per chunk
    xml,               \* Spine._xml, per chunk: {} or {url of the document}
    appsOf,            \* Spine._apps, per chunk: 0 (undefined) or the call
                       \* whose parseApps created the array
    heap,              \* per call: the Apparatus array its parseApps created
    call,              \* per call of initialize(): its position and locals
    running,           \* the call executing synchronously (0: none)
    requests           \* number of cache.getXML() invocations so far

network == <<served, overlap>>

vars == <<served, overlap, cache, inflight, failures, mockElementCount, initialized, xml, appsOf,
          heap, call, running, requests>>

IdleCall == [pc |-> "idle", chunk |-> 0, awaiting |-> {}, rejected |-> FALSE,
             apps |-> 0, i |-> 0, iter |-> <<>>, j |-> 0, invalid |-> {},
             xpath |-> <<>>, threw |-> FALSE,
             \* history: phase reached, pointers the phase's loop has
             \* visited, urls requested by fetchAllReferences, whether
             \* no other call on the chunk was in progress meanwhile, and
             \* the urls whose fetch the call saw fail
             phase |-> 0, seen |-> {}, urls |-> {}, solo |-> TRUE, lost |-> {}]

Init ==
    /\ \E w \in Worlds : served = w.docs /\ overlap = w.overlap
    /\ cache = <<>>
    /\ inflight = {}
    /\ failures = 0
    /\ mockElementCount = 0
    /\ initialized = [k \in Chunks |-> FALSE]
    /\ xml = [k \in Chunks |-> {}]
    /\ appsOf = [k \in Chunks |-> 0]
    /\ heap = [c \in Calls |-> NoApps]
    /\ call = [c \in Calls |-> IdleCall]
    /\ running = 0
    /\ requests = 0

\* ------------------------------------------------------------------ cache
\* cache.getXML(url) for each url of urls, by call c: a url neither cached
\* nor in flight starts a fetch, one in flight is joined, a cached one is
\* served from the cache.
CacheGet(c, urls, next) ==
    /\ inflight' = inflight \cup {u \in urls : u \notin DOMAIN cache}
    /\ requests' = requests + Cardinality(urls)
    /\ call' = [call EXCEPT ![c] = [next EXCEPT
                     !.awaiting = {u \in urls : u \notin DOMAIN cache},
                     !.rejected = FALSE]]

\* a call suspended at an await may resume
Settled(c) == call[c].rejected \/ call[c].awaiting = {}

\* a fetch completes with a document
FetchSucceeds(url) ==
    /\ running = 0
    /\ url \in inflight
    /\ url \in DOMAIN served
    /\ cache' = (url :> served[url]) @@ cache
    /\ inflight' = inflight \ {url}
    /\ call' = [c \in Calls |-> [call[c] EXCEPT !.awaiting = @ \ {url}]]
    /\ UNCHANGED <<network, failures, mockElementCount, initialized, xml,
                   appsOf, heap, running, requests>>

\* a fetch fails: nothing is cached, every waiter sees the rejection
FetchFails(url) ==
    /\ running = 0
    /\ url \in inflight
    /\ url \notin DOMAIN served \/ failures < MaxFailures
    /\ failures' = IF url \notin DOMAIN served THEN failures ELSE failures + 1
    /\ inflight' = inflight \ {url}
    /\ call' = [c \in Calls |->
                  IF url \in call[c].awaiting
                  THEN [call[c] EXCEPT !.awaiting = @ \ {url}, !.rejected = TRUE,
                                       !.lost = @ \cup {url}]
                  ELSE call[c]]
    /\ UNCHANGED <<network, cache, mockElementCount, initialized, xml, appsOf, heap,
                   running, requests>>

\* ------------------------------------------------------------- initialize
\* initialize() throws; the promises it still waits for are abandoned
Fail(c) == call' = [call EXCEPT ![c].pc = "failed", ![c].awaiting = {}]

\* the Apparatus array a call iterates, and the pointer it is at
AppsAt(c) == heap[call[c].apps].apps
At(c) == <<call[c].i, call[c].iter[call[c].j]>>
PtrAt(c) == heap[call[c].apps].objs[call[c].i][call[c].iter[call[c].j]]

Active(c) == call[c].pc \notin {"idle", "returned", "failed"}

\* if (this._initialized) return;
InitializeAlways(k) == FALSE
AlreadyInitialized(k) == initialized[k]

\* initialize(): the _initialized test, then getXML() up to its await
Initialize(c, k) ==
    /\ running = 0
    /\ call[c].pc = "idle"
    /\ \A b \in Calls : b < c => call[b].pc # "idle"
    /\ IF overlap THEN \A a, b \in Calls : Active(a) /\ Active(b) => a = b
                  ELSE \A b \in Calls : ~Active(b)
    /\ IF AlreadyInitialized(k)
       THEN /\ call' = [call EXCEPT ![c].pc = "returned", ![c].chunk = k]
            /\ UNCHANGED <<inflight, requests>>
       ELSE /\ inflight' = inflight \cup ({SpineUrl(k)} \ DOMAIN cache)
            /\ requests' = requests + 1
            /\ call' = [b \in Calls |->
                  IF b = c
                  THEN [call[c] EXCEPT !.pc = "awaitXML", !.chunk = k, !.phase = 1,
                            !.awaiting = {SpineUrl(k)} \ DOMAIN cache,
                            !.solo = \A d \in Calls : ~(Active(d) /\ call[d].chunk = k)]
                  ELSE IF Active(b) /\ call[b].chunk = k
                  THEN [call[b] EXCEPT !.solo = FALSE]
                  ELSE call[b]]
    /\ UNCHANGED <<network, cache, failures, mockElementCount, initialized, xml, appsOf,
                   heap, running>>

\* this._xml = await this.getXML(); then parseApps() up to its return
ParseApps(c) ==
    LET k == call[c].chunk
        parsed == parseAppsOf(cache[SpineUrl(k)])
    IN  /\ running = 0
        /\ call[c].pc = "awaitXML"
        /\ Settled(c)
        /\ IF call[c].rejected
           THEN Fail(c) /\ UNCHANGED <<xml, appsOf, heap>>
           ELSE /\ xml' = [xml EXCEPT ![k] = {SpineUrl(k)}]
                \* this._apps = apps is not reached when a constructor threw
                /\ IF parsed.gen = NoApps /\ ~parsed.ok
                   THEN UNCHANGED <<appsOf, heap>>
                   ELSE /\ heap' = [heap EXCEPT ![c] = parsed.gen]
                        /\ appsOf' = [appsOf EXCEPT ![k] = c]
                /\ IF parsed.ok
                   THEN call' = [call EXCEPT ![c].pc = "awaitParse", ![c].phase = 2]
                   ELSE Fail(c)
        /\ UNCHANGED <<network, cache, inflight, failures, mockElementCount, initialized,
                       running, requests>>

\* the urls fetchAllReferences collects from this.apps
ReferencedUrls(gen) ==
    UNION {{gen.objs[a][gen.apps[a].pointers[p]].referencedUrl :
               p \in 1..Len(gen.apps[a].pointers)} : a \in 1..Len(gen.apps)}

\* fetchAllReferences(): one cache.getXML per unique url, then Promise.all
FetchAllReferences(c) ==
    /\ running = 0
    /\ call[c].pc = "awaitParse"
    /\ CacheGet(c, ReferencedUrls(heap[appsOf[call[c].chunk]]),
                [call[c] EXCEPT !.pc = "awaitFetch", !.phase = 3,
                     !.urls = ReferencedUrls(heap[appsOf[call[c].chunk]])])
    /\ UNCHANGED <<network, cache, failures, mockElementCount, initialized, xml, appsOf,
                   heap, running>>

\* await Promise.all(promises) throws when one of the fetches failed
AllSettledOnly(c) == FALSE
BarrierFailed(c) == call[c].rejected

\* Promise.all settles; on success rewriteStringRanges() starts its loop
RewriteStringRanges(c) ==
    /\ running = 0
    /\ call[c].pc = "awaitFetch"
    /\ Settled(c)
    /\ IF BarrierFailed(c)
       THEN Fail(c) /\ UNCHANGED running
       ELSE /\ call' = [call EXCEPT ![c].pc = "rwApp", ![c].i = 1,
                                    ![c].apps = appsOf[call[c].chunk],
                                    ![c].phase = 4, ![c].seen = {}]
            /\ running' = c
    /\ UNCHANGED <<network, cache, inflight, failures, mockElementCount, initialized, xml,
                   appsOf, heap, requests>>

\* for(let app of this.apps): the loop over the Apparatus array has ended
StopsOneShort(c) == call[c].i >= Len(AppsAt(c))
AppsDone(c) == call[c].i > Len(AppsAt(c))

\* for(let app of this.apps) in rewriteStringRanges
RewriteApp(c) ==
    /\ running = c
    /\ call[c].pc = "rwApp"
    /\ IF AppsDone(c)
       THEN /\ call' = [call EXCEPT ![c].pc = "awaitRewrite"]
            /\ running' = 0
       ELSE /\ call' = [call EXCEPT ![c].pc = "rwPtr", ![c].j = 1,
                                    ![c].invalid = {},
                                    ![c].iter = AppsAt(c)[call[c].i].pointers]
            /\ UNCHANGED running
    /\ UNCHANGED <<network, cache, inflight, failures, mockElementCount, initialized, xml,
                   appsOf, heap, requests>>

\* app.pointers.filter((ptr) => !invalidPointers.has(ptr))
KeepAll(pointers, invalid) == pointers
ValidThenInvalid(pointers, invalid) ==
    SelectSeq(pointers, LAMBDA p : p \notin invalid)
        \o SelectSeq(pointers, LAMBDA p : p \in invalid)
FilterValid(pointers, invalid) == SelectSeq(pointers, LAMBDA p : p \notin invalid)

\* for(let ptr of app.pointers) in rewriteStringRanges: the regex test, the
\* call of rewriteStringRange up to its await, and the filter after the loop
RewritePtr(c) ==
    LET g == call[c].apps
        i == call[c].i
    IN  /\ running = c
        /\ call[c].pc = "rwPtr"
        /\ IF call[c].j > Len(call[c].iter)
           THEN /\ heap' = [heap EXCEPT ![g].apps[i].pointers =
                                FilterValid(@, call[c].invalid)]
                /\ call' = [call EXCEPT ![c].pc = "rwApp", ![c].i = i + 1]
                /\ UNCHANGED <<inflight, running, requests>>
           ELSE LET match == MatchStringRange(PtrAt(c).referencedTarget)
                IN  IF match = {}
                    THEN /\ call' = [call EXCEPT ![c].j = @ + 1,
                                        ![c].seen = @ \cup {At(c)}]
                         /\ UNCHANGED <<heap, inflight, running, requests>>
                    ELSE /\ CacheGet(c, {PtrAt(c).referencedUrl},
                                [call[c] EXCEPT !.pc = "awaitRangeDoc",
                                    !.seen = @ \cup {At(c)},
                                    !.xpath = (CHOOSE m \in match : TRUE).xpath])
                         /\ running' = 0
                         /\ UNCHANGED heap
        /\ UNCHANGED <<network, cache, failures, mockElementCount, initialized, xml, appsOf>>

\* if (idAttr): the matched element has an xml:id
NeverHasId(idAttr) == FALSE
HasId(idAttr) == idAttr # {}

\* Spine.mockElementCount += 1
SameCount(count) == count
NextCount(count) == count + 1

\* rewriteStringRange() after its await: evaluate the patched xpath, take or
\* synthesize the xml:id, update the pointer and its <ptr> element
RewriteStringRange(c) ==
    LET g == call[c].apps
        i == call[c].i
        p == call[c].iter[call[c].j]
        ptr == PtrAt(c)
        targetDoc == cache[ptr.referencedUrl]
        patchedXPath == PatchXPath(call[c].xpath)
        targetNodes == evaluateXPath(targetDoc, patchedXPath)
        e == CHOOSE e \in targetNodes : TRUE
        idAttr == targetDoc.elems[e].id
        xmlId == IF HasId(idAttr) THEN CHOOSE v \in idAttr : TRUE
                 ELSE MockId(mockElementCount)
        spine == SpineUrl(call[g].chunk)
        withId == IF HasId(idAttr) THEN cache
                  ELSE [cache EXCEPT ![ptr.referencedUrl].elems[e].id = {xmlId}]
    IN  /\ running = 0
        /\ call[c].pc = "awaitRangeDoc"
        /\ Settled(c)
        /\ IF call[c].rejected \/ Cardinality(targetNodes) # 1
           THEN /\ call' = [call EXCEPT ![c].pc = "awaitRange", ![c].threw = TRUE]
                /\ UNCHANGED <<cache, mockElementCount, heap>>
           ELSE /\ mockElementCount' =
                       IF HasId(idAttr) THEN mockElementCount
                       ELSE NextCount(mockElementCount)
                /\ heap' = [heap EXCEPT ![g].objs[i][p].referencedTarget = xmlId]
                /\ cache' = [withId EXCEPT
                       ![spine].apps[ptr.ptrElement[1]].ptrs[ptr.ptrElement[2]].target =
                           {RewrittenTarget(ptr.referencedUrl, xmlId, xmlId)}]
                /\ call' = [call EXCEPT ![c].pc = "awaitRange", ![c].threw = FALSE]
        /\ UNCHANGED <<network, inflight, failures, initialized, xml, appsOf, running, requests>>

\* await this.rewriteStringRange(...) settles: the catch, then the loop goes on
RewriteNext(c) ==
    /\ running = 0
    /\ call[c].pc = "awaitRange"
    /\ call' = [call EXCEPT ![c].pc = "rwPtr", ![c].j = @ + 1,
                   ![c].invalid = IF call[c].threw
                                  THEN @ \cup {call[c].iter[call[c].j]} ELSE @]
    /\ running' = c
    /\ UNCHANGED <<network, cache, inflight, failures, mockElementCount, initialized, xml,
                   appsOf, heap, requests>>

\* await this.rewriteStringRanges() settles; dereferencePointers() starts
DereferencePointers(c) ==
    /\ running = 0
    /\ call[c].pc = "awaitRewrite"
    /\ call' = [call EXCEPT ![c].pc = "drApp", ![c].i = 1,
                            ![c].apps = appsOf[call[c].chunk],
                            ![c].phase = 5, ![c].seen = {}]
    /\ running' = c
    /\ UNCHANGED <<network, cache, inflight, failures, mockElementCount, initialized, xml,
                   appsOf, heap, requests>>

\* for(let app of this.apps) in dereferencePointers
DerefApp(c) ==
    /\ running = c
    /\ call[c].pc = "drApp"
    /\ IF AppsDone(c)
       THEN /\ call' = [call EXCEPT ![c].pc = "awaitDeref"]
            /\ running' = 0
       ELSE /\ call' = [call EXCEPT ![c].pc = "drPtr", ![c].j = 1,
                                    ![c].iter = AppsAt(c)[call[c].i].pointers]
            /\ UNCHANGED running
    /\ UNCHANGED <<network, cache, inflight, failures, mockElementCount, initialized, xml,
                   appsOf, heap, requests>>

\* for(let ptr of app.pointers) in dereferencePointers, up to the await
DerefPtr(c) ==
    /\ running = c
    /\ call[c].pc = "drPtr"
    /\ IF call[c].j > Len(call[c].iter)
       THEN /\ call' = [call EXCEPT ![c].pc = "drApp", ![c].i = @ + 1]
            /\ UNCHANGED <<inflight, running, requests>>
       ELSE /\ CacheGet(c, {PtrAt(c).referencedUrl},
                        [call[c] EXCEPT !.pc = "awaitDerefDoc",
                                        !.seen = @ \cup {At(c)}])
            /\ running' = 0
    /\ UNCHANGED <<network, cache, failures, mockElementCount, initialized, xml, appsOf, heap>>

\* ptr.dereferenced = element: the handle held afterwards
NotAssigned(url, el) == {}
Handle(url, el) == {[doc |-> url, el |-> el]}

\* the document arrives: findElementByXmlId, ptr.dereferenced = element
Dereference(c) ==
    LET g == call[c].apps
        i == call[c].i
        p == call[c].iter[call[c].j]
        ptr == PtrAt(c)
        found == findElementByXmlId(cache[ptr.referencedUrl], ptr.referencedTarget)
    IN  /\ running = 0
        /\ call[c].pc = "awaitDerefDoc"
        /\ Settled(c)
        /\ IF call[c].rejected \/ ~found.ok
           THEN Fail(c) /\ UNCHANGED <<heap, running>>
           ELSE /\ heap' = [heap EXCEPT ![g].objs[i][p].dereferenced =
                                Handle(ptr.referencedUrl, found.el)]
                /\ call' = [call EXCEPT ![c].pc = "drPtr", ![c].j = @ + 1]
                /\ running' = c
        /\ UNCHANGED <<network, cache, inflight, failures, mockElementCount, initialized, xml,
                       appsOf, requests>>

\* await this.dereferencePointers() settles; addBackPointers() starts
AddBackPointers(c) ==
    /\ running = 0
    /\ call[c].pc = "awaitDeref"
    /\ call' = [call EXCEPT ![c].pc = "bpApp", ![c].i = 1,
                            ![c].apps = appsOf[call[c].chunk],
                            ![c].phase = 6, ![c].seen = {}]
    /\ running' = c
    /\ UNCHANGED <<network, cache, inflight, failures, mockElementCount, initialized, xml,
                   appsOf, heap, requests>>

\* for(let app of this.apps) in addBackPointers; after the loop
\* this._initialized = true and initialize() returns
BackApp(c) ==
    /\ running = c
    /\ call[c].pc = "bpApp"
    /\ IF AppsDone(c)
       THEN /\ initialized' = [initialized EXCEPT ![call[c].chunk] = TRUE]
            /\ call' = [call EXCEPT ![c].pc = "returned"]
            /\ running' = 0
       ELSE /\ call' = [call EXCEPT ![c].pc = "bpPtr", ![c].j = 1,
                                    ![c].iter = AppsAt(c)[call[c].i].pointers]
            /\ UNCHANGED <<initialized, running>>
    /\ UNCHANGED <<network, cache, inflight, failures, mockElementCount, xml, appsOf, heap,
                   requests>>

\* setAttribute('app-ref', app.id): the attribute's new value
KeepExisting(current, id) == IF current # {} THEN current ELSE {id}
SetAppRef(current, id) == {id}

\* for(let ptr of app.pointers) in addBackPointers
BackPtr(c) ==
    LET ptr == PtrAt(c)
        at == CHOOSE d \in ptr.dereferenced : TRUE
    IN  /\ running = c
        /\ call[c].pc = "bpPtr"
        /\ IF call[c].j > Len(call[c].iter)
           THEN /\ call' = [call EXCEPT ![c].pc = "bpApp", ![c].i = @ + 1]
                /\ UNCHANGED cache
           ELSE /\ call' = [call EXCEPT ![c].j = @ + 1, ![c].seen = @ \cup {At(c)}]
                /\ IF ptr.dereferenced = {}
                   THEN UNCHANGED cache
                   ELSE cache' = [cache EXCEPT ![at.doc].elems[at.el].appRef =
                                      SetAppRef(@, AppsAt(c)[call[c].i].id)]
        /\ UNCHANGED <<network, inflight, failures, mockElementCount, initialized, xml, appsOf,
                       heap, running, requests>>

\* ---------------------------------------------------------- specification
Next ==
    \/ \E c \in Calls, k \in Chunks : Initialize(c, k)
    \/ \E url \in inflight : FetchSucceeds(url)
    \/ \E url \in inflight : FetchFails(url)
    \/ \E c \in Calls : ParseApps(c)
    \/ \E c \in Calls : FetchAllReferences(c)
    \/ \E c \in Calls : RewriteStringRanges(c)
    \/ \E c \in Calls : RewriteApp(c)
    \/ \E c \in Calls : RewritePtr(c)
    \/ \E c \in Calls : RewriteStringRange(c)
    \/ \E c \in Calls : RewriteNext(c)
    \/ \E c \in Calls : DereferencePointers(c)
    \/ \E c \in Calls : DerefApp(c)
    \/ \E c \in Calls : DerefPtr(c)
    \/ \E c \in Calls : Dereference(c)
    \/ \E c \in Calls : AddBackPointers(c)
    \/ \E c \in Calls : BackApp(c)
    \/ \E c \in Calls : BackPtr(c)

Spec == Init /\ [][Next]_vars

\* ================================================================= claims
FullRun(c) == call[c].pc = "returned" /\ call[c].phase = 6
Started(c) == call[c].pc = "idle" /\ call'[c].pc # "idle"

\* every pointer of the Apparatus array of call g, as <<app, pointer>>
PointersOf(g) ==
    UNION {{<<a, heap[g].apps[a].pointers[p]>> :
               p \in 1..Len(heap[g].apps[a].pointers)} : a \in 1..Len(heap[g].apps)}

\* C1 -- idempotence: a call of initialize() on a chunk that is Ready returns
\* at once; it issues no cache.getXML(), starts no fetch, and leaves the
\* apparatus lists, the pointers, the documents (ids and back-references)
\* and the mock-id counter as they were.
C1_Idempotent ==
    [][\A c \in Calls :
          (Started(c) /\ initialized[call'[c].chunk])
          => /\ call'[c].pc = "returned"
             /\ requests' = requests
             /\ inflight' = inflight
             /\ cache' = cache
             /\ heap' = heap
             /\ appsOf' = appsOf
             /\ mockElementCount' = mockElementCount
             /\ initialized' = initialized]_vars

\* a second call returned at once on a chunk an earlier call made Ready
C1_Witness ==
    \E b, c \in Calls :
        /\ b < c
        /\ FullRun(b)
        /\ call[c].chunk = call[b].chunk
        /\ call[c].pc = "returned"
        /\ call[c].phase = 0

\* C2 -- within one call the six phases run strictly in order: a call moves
\* from a phase only to the next one (or fails); it leaves the fetch phase
\* only when every url it requested is cached, and it leaves the rewrite,
\* dereference and back-reference loops only when the loop has visited every
\* pointer of every apparatus of the array it iterates; the call sets the
\* chunk Ready only on leaving phase 6.
C2_PhaseOrder ==
    [][\A c \in Calls :
          /\ call'[c].phase \in {call[c].phase, call[c].phase + 1}
          /\ (call'[c].phase = 4 /\ call[c].phase = 3)
                => call[c].urls \subseteq DOMAIN cache
          /\ (call[c].phase \in {4, 5} /\ call'[c].phase = call[c].phase + 1)
                => PointersOf(call[c].apps) \subseteq call[c].seen
          /\ (call[c].pc # "returned" /\ call'[c].pc = "returned" /\ call[c].phase # 0)
                => /\ call[c].phase = 6
                   /\ PointersOf(call[c].apps) \subseteq call[c].seen
          /\ \A k \in Chunks :
                (~initialized[k] /\ initialized'[k] /\ call[c].chunk = k
                    /\ call'[c].pc # call[c].pc)
                => call'[c].pc = "returned" /\ call[c].phase = 6]_vars

\* a call ran all six phases over two apparatuses and four pointers
C2_Witness ==
    \E c \in Calls :
        /\ FullRun(c)
        /\ Len(heap[c].apps) = 2
        /\ Cardinality(call[c].seen) = 4

\* C3 -- fetch barrier: fetchAllReferences requests every referenced url in
\* one step, before any of them has to complete; a call is in phases 4-6
\* only if every one of those urls has been fetched; and when one of the
\* fetches fails the call fails without rewriting or dereferencing a
\* pointer, without touching a document and without setting the chunk Ready.
C3_FetchBarrier ==
    [][\A c \in Calls :
          /\ (call[c].phase = 2 /\ call'[c].phase = 3)
                => /\ call'[c].urls = ReferencedUrls(heap[appsOf[call[c].chunk]])
                   /\ call'[c].urls \subseteq (inflight' \cup DOMAIN cache)
                   /\ call'[c].awaiting = call'[c].urls \ DOMAIN cache
          /\ call'[c].phase \in {4, 5, 6} => call'[c].urls \subseteq DOMAIN cache'
          /\ (call[c].phase = 3 /\ call[c].rejected /\ call'[c].pc # call[c].pc)
                => /\ call'[c].pc = "failed"
                   /\ heap' = heap
                   /\ cache' = cache
                   /\ mockElementCount' = mockElementCount
                   /\ initialized' = initialized
          /\ call[c].pc = "failed" => call'[c] = call[c]]_vars

\* a call that waited for two documents failed at the barrier
C3_Witness ==
    \E c \in Calls :
        /\ call[c].pc = "failed"
        /\ call[c].phase = 3
        /\ call[c].rejected
        /\ Cardinality(call[c].urls) = 2

\* the pointer object <<a, p>> of the Apparatus array of call g
Obj(g, at) == heap[g].objs[at[1]][at[2]]

IsRange(target) == MatchStringRange(target) # {}

\* the elements the range expression a pointer was parsed with selects in
\* the document served for its url
RangeMatches(o) ==
    IF o.referencedUrl \in DOMAIN served
    THEN evaluateXPath(served[o.referencedUrl],
             PatchXPath((CHOOSE m \in MatchStringRange(o.parsedTarget) : TRUE).xpath))
    ELSE {}

\* a range pointer whose patched xpath selects no element, or several
RangeFails(o) == IsRange(o.parsedTarget) /\ Cardinality(RangeMatches(o)) # 1

\* the pointers of apparatus a of array g as parsed, without those whose
\* range fails
Survivors(g, a) ==
    SelectSeq([p \in 1..Len(heap[g].objs[a]) |-> p],
              LAMBDA p : ~RangeFails(heap[g].objs[a][p]))

\* C4 -- range rewrite failure containment: when a call has finished phase 4
\* every apparatus of the array it iterated lists exactly the pointers it was
\* parsed with minus the range pointers whose patched xpath selects zero or
\* several elements, in their original order; no call fails in phase 4, and
\* a call in phases 4-6 is never stuck (it is executing, or every document
\* it waits for is being fetched or has settled).  For a call with no
\* other call in progress on its chunk: if it fails in phase 5 it fails at a
\* pointer that is still listed and is not one of the failed ranges, and
\* after its full run the lists are still those and every listed pointer is
\* dereferenced.
C4_RangeFailureContained ==
    \A c \in Calls :
        /\ call[c].pc = "awaitRewrite"
              => \A a \in 1..Len(AppsAt(c)) :
                     AppsAt(c)[a].pointers = Survivors(call[c].apps, a)
        /\ call[c].pc = "failed" => call[c].phase # 4
        /\ (Active(c) /\ call[c].phase \in {4, 5, 6})
              => \/ running = c
                 \/ call[c].rejected
                 \/ call[c].awaiting \subseteq inflight
        /\ (call[c].pc = "failed" /\ call[c].phase = 5 /\ call[c].solo)
              => /\ At(c) \in PointersOf(call[c].apps)
                 /\ ~RangeFails(PtrAt(c))
        /\ (FullRun(c) /\ call[c].solo)
              => \A a \in 1..Len(heap[c].apps) :
                     /\ heap[c].apps[a].pointers = Survivors(c, a)
                     /\ \A p \in 1..Len(heap[c].apps[a].pointers) :
                            Obj(c, <<a, heap[c].apps[a].pointers[p]>>).dereferenced # {}

\* a full run dropped the middle pointer of three, once for a range that
\* selects nothing and once for a range that selects two elements
C4_Witness ==
    \E c \in Calls :
        /\ FullRun(c)
        /\ heap[c].apps[1].pointers = <<1, 3>>
        /\ Cardinality(RangeMatches(heap[c].objs[1][2])) = 0

\* a full run dropped a range pointer that selects two elements
C4_WitnessSeveral ==
    \E c \in Calls :
        /\ FullRun(c)
        /\ heap[c].apps[1].pointers = <<1, 3>>
        /\ Cardinality(RangeMatches(heap[c].objs[1][2])) = 2

\* the elements of the cached document of pointer o that carry its
\* referencedTarget as xml:id
IdMatches(o) ==
    {e \in 1..Len(cache[o.referencedUrl].elems) :
        cache[o.referencedUrl].elems[e].id = {o.referencedTarget}}

\* C5 -- dereference-phase fatality: when, in phase 5, the document of a
\* pointer has arrived and the pointer's referencedTarget is the xml:id of no
\* element of it, or of several, the call fails in that step: no pointer is
\* dropped or changed by it (the pointer is still listed, unless an
\* overlapping call on the chunk has removed it), no document is touched (no
\* back-reference is injected), the chunk is not set Ready, and the failed
\* call does nothing more.
C5_DereferenceFatal ==
    [][\A c \in Calls :
          /\ (/\ call[c].pc = "awaitDerefDoc"
              /\ call'[c].pc # "awaitDerefDoc"
              /\ ~call[c].rejected
              /\ Cardinality(IdMatches(PtrAt(c))) # 1)
                => /\ call'[c].pc = "failed"
                   /\ call'[c].phase = 5
                   /\ heap' = heap
                   /\ call[c].solo => At(c) \in PointersOf(call[c].apps)
                   /\ cache' = cache
                   /\ initialized' = initialized
          /\ (call[c].pc = "failed" /\ call[c].phase = 5)
                => call'[c] = call[c] /\ (running' = c <=> running = c)]_vars

\* a call failed in phase 5 at a direct-id pointer whose id two elements carry
C5_Witness ==
    \E c \in Calls :
        /\ call[c].pc = "failed"
        /\ call[c].phase = 5
        /\ ~call[c].rejected
        /\ ~IsRange(PtrAt(c).parsedTarget)
        /\ Cardinality(IdMatches(PtrAt(c))) = 2
        /\ At(c) \in PointersOf(call[c].apps)
        /\ ~initialized[call[c].chunk]

\* a call failed in phase 5 at a direct-id pointer whose id no element carries
C5_WitnessNone ==
    \E c \in Calls :
        /\ call[c].pc = "failed"
        /\ call[c].phase = 5
        /\ ~call[c].rejected
        /\ ~IsRange(PtrAt(c).parsedTarget)
        /\ Cardinality(IdMatches(PtrAt(c))) = 0

\* the listed pointers of array g, as <<a, p>>, whose handle is set
Resolved(g) == {at \in PointersOf(g) : Obj(g, at).dereferenced # {}}

\* the element a resolved pointer holds
ElementOf(g, at) ==
    LET h == CHOOSE d \in Obj(g, at).dereferenced : TRUE
    IN  cache[h.doc].elems[h.el]

\* the last apparatus of array g, in document order, with a listed pointer
\* that holds the same element as pointer at
LastClaimant(g, at) ==
    CHOOSE a \in 1..Len(heap[g].apps) :
        /\ \E bt \in Resolved(g) :
               bt[1] = a /\ Obj(g, bt).dereferenced = Obj(g, at).dereferenced
        /\ \A bt \in Resolved(g) :
               Obj(g, bt).dereferenced = Obj(g, at).dereferenced => bt[1] <= a

\* C6 as stated -- after a full run (here: of the only call made so far)
\* the element of every listed pointer carries app-ref equal to the id of
\* the pointer's own apparatus.
C6_OwnApparatus ==
    \A c \in Calls :
        (FullRun(c) /\ \A b \in Calls \ {c} : call[b].pc = "idle")
        => \A at \in PointersOf(c) :
               /\ Obj(c, at).dereferenced # {}
               /\ ElementOf(c, at).appRef = {heap[c].apps[at[1]].id}

BackRefsOf(g) ==
    \A at \in Resolved(g) :
        ElementOf(g, at).appRef = {heap[g].apps[LastClaimant(g, at)].id}

\* C6 as amended -- when a call completes its full run, the element of every
\* listed pointer of the array it iterated carries app-ref equal to the id
\* of the last apparatus of the chunk, in document order, that has a listed
\* pointer dereferenced to that element; a call that was alone on its chunk
\* has every listed pointer dereferenced.
C6_LastApparatus ==
    [][\A c \in Calls :
          (call[c].pc = "bpApp" /\ call'[c].pc = "returned")
          => /\ BackRefsOf(call[c].apps)'
             /\ call[c].solo => Resolved(call[c].apps) = PointersOf(call[c].apps)]_vars

\* a full run in which two apparatuses resolved to the same element, which
\* carries the id of the second
C6_Witness ==
    \E c \in Calls :
        /\ FullRun(c)
        /\ \E at, bt \in Resolved(c) :
               /\ at[1] < bt[1]
               /\ Obj(c, at).dereferenced = Obj(c, bt).dereferenced
               /\ ElementOf(c, at).appRef = {heap[c].apps[bt[1]].id}
               /\ heap[c].apps[bt[1]].id # heap[c].apps[at[1]].id

\* C7 -- after a full run of a call that was alone on its chunk, the array
\* the call parsed is the chunk's apparatus list and every pointer listed in
\* it holds a handle to an element of the cached document of its
\* referencedUrl whose xml:id is the pointer's referencedTarget.
C7_FinalPointersResolved ==
    \A c \in Calls :
        (FullRun(c) /\ call[c].solo)
        => /\ appsOf[call[c].chunk] = c
           /\ initialized[call[c].chunk]
           /\ \A at \in PointersOf(c) :
                  LET o == Obj(c, at)
                  IN  /\ o.referencedUrl \in DOMAIN cache
                      /\ \E e \in 1..Len(cache[o.referencedUrl].elems) :
                             /\ o.dereferenced = {[doc |-> o.referencedUrl, el |-> e]}
                             /\ cache[o.referencedUrl].elems[e].id = {o.referencedTarget}

\* a full run left three pointers in two documents, one of them a rewritten
\* range
C7_Witness ==
    \E c \in Calls :
        /\ FullRun(c)
        /\ call[c].solo
        /\ Cardinality(PointersOf(c)) >= 3
        /\ \E at, bt \in PointersOf(c) :
               /\ Obj(c, at).referencedUrl # Obj(c, bt).referencedUrl
               /\ IsRange(Obj(c, at).parsedTarget)

\* the elements the range captured by call c selects in the cached document
\* of the pointer the call is at
SelectedNow(c) ==
    evaluateXPath(cache[PtrAt(c).referencedUrl], PatchXPath(call[c].xpath))

\* every listed pointer of array g that was parsed as a range names the
\* xml:id its single selected element carries
RangesNameTheirElement(g) ==
    \A at \in PointersOf(g) :
        LET o == Obj(g, at)
        IN  IsRange(o.parsedTarget)
            => /\ Cardinality(RangeMatches(o)) = 1
               /\ \A e \in RangeMatches(o) :
                      cache[o.referencedUrl].elems[e].id = {o.referencedTarget}

\* C8 -- range rewrite result: when rewriteStringRange finds that the patched
\* xpath selects exactly one element of the fetched document, the pointer is
\* kept and its referencedTarget becomes the xml:id that element carries
\* afterwards: the id the element already had, with the counter unchanged,
\* or else mock-id-<counter>, which the element now carries, with the
\* counter advanced by one.  When a call finishes phase 4 every listed range
\* pointer names the id of its selected element.
C8_RangeRewriteResult ==
    [][\A c \in Calls :
          /\ (/\ call[c].pc = "awaitRangeDoc"
              /\ call'[c].pc # "awaitRangeDoc"
              /\ ~call[c].rejected
              /\ Cardinality(SelectedNow(c)) = 1)
                => LET url == PtrAt(c).referencedUrl
                       e == CHOOSE e \in SelectedNow(c) : TRUE
                       had == cache[url].elems[e].id
                       has == cache'[url].elems[e].id
                   IN  /\ ~call'[c].threw
                       /\ has = {Obj(call[c].apps, At(c)).referencedTarget'}
                       /\ had # {} => has = had /\ mockElementCount' = mockElementCount
                       /\ had = {} => /\ has = {<<"mock-id-">> \o DecStr(mockElementCount)}
                                      /\ mockElementCount' = mockElementCount + 1
          /\ (call[c].pc # "awaitRewrite" /\ call'[c].pc = "awaitRewrite")
                => RangesNameTheirElement(call[c].apps)']_vars

\* a full run rewrote one range to the id its element had and another to a
\* synthesized id
C8_Witness ==
    \E c \in Calls :
        /\ FullRun(c)
        /\ \E at, bt \in PointersOf(c) :
               /\ IsRange(Obj(c, at).parsedTarget)
               /\ Obj(c, at).referencedTarget = <<"a">>
               /\ IsRange(Obj(c, bt).parsedTarget)
               /\ Obj(c, bt).referencedTarget = <<"mock-id-", "0">>
               /\ ElementOf(c, bt).id = {<<"mock-id-", "0">>}

\* the target attribute of the <ptr> element pointer o was parsed from
TargetAttribute(g, o) ==
    cache[SpineUrl(call[g].chunk)].apps[o.ptrElement[1]].ptrs[o.ptrElement[2]].target

\* C9 -- after a pointer has been rewritten, the target attribute of its
\* <ptr> element is url#id with url the pointer's referencedUrl and id its
\* referencedTarget, and splitting it at '#' gives back exactly the two.
C9_TargetAttributeConsistent ==
    \A g \in Calls : \A a \in 1..Len(heap[g].objs) : \A p \in 1..Len(heap[g].objs[a]) :
        LET o == heap[g].objs[a][p]
        IN  o.referencedTarget # o.parsedTarget
            => /\ TargetAttribute(g, o) = {o.referencedUrl \o <<"#">> \o o.referencedTarget}
               /\ \A v \in TargetAttribute(g, o) :
                      Split(v, "#") = <<o.referencedUrl, o.referencedTarget>>

\* every element of every cached document, as <<url, e>>
Elements == UNION {{<<url, e>> : e \in 1..Len(cache[url].elems)} : url \in DOMAIN cache}

Carriers(id) == {x \in Elements : cache[x[1]].elems[x[2]].id = {id}}

\* C10 -- synthesized ids: in every step the counter does not decrease; an
\* element that has an xml:id keeps it; an element that gains one had none,
\* gains mock-id-<counter> and the counter advances by one, and no other
\* element gains one in that step; and every counter value handed out so far
\* is carried by exactly one element.
C10_SynthesizedIdsUnique ==
    [][/\ mockElementCount' >= mockElementCount
       /\ \A x \in Elements :
             LET had == cache[x[1]].elems[x[2]].id
                 has == cache'[x[1]].elems[x[2]].id
             IN  /\ had # {} => has = had
                 /\ (had = {} /\ has # {})
                       => /\ has = {<<"mock-id-">> \o DecStr(mockElementCount)}
                          /\ mockElementCount' = mockElementCount + 1
                          /\ \A y \in Elements \ {x} :
                                 cache'[y[1]].elems[y[2]].id = cache[y[1]].elems[y[2]].id
       /\ (mockElementCount' # mockElementCount)
             => \E x \in Elements : cache'[x[1]].elems[x[2]].id # cache[x[1]].elems[x[2]].id
       /\ \A n \in 0..(mockElementCount' - 1) :
             Cardinality(Carriers(<<"mock-id-">> \o DecStr(n))') = 1]_vars

\* calls on two chunks have synthesized two ids, for elements of two
\* documents, and a later range pointer reused the first
C10_Witness ==
    /\ mockElementCount = 2
    /\ Carriers(<<"mock-id-", "0">>) # Carriers(<<"mock-id-", "1">>)
    /\ \E c, d \in Calls :
          /\ c # d
          /\ call[c].chunk # call[d].chunk
          /\ \E at \in PointersOf(c), bt \in PointersOf(d) :
                 /\ IsRange(Obj(c, at).parsedTarget)
                 /\ IsRange(Obj(d, bt).parsedTarget)
                 /\ Obj(c, at).referencedTarget = Obj(d, bt).referencedTarget

\* the spine document call c is about to parse does not parse: one of its
\* <app> elements makes the Apparatus constructor throw
ParseThrows(c) ==
    /\ call[c].pc = "awaitXML"
    /\ ~call[c].rejected
    /\ SpineUrl(call[c].chunk) \in DOMAIN cache
    /\ \E a \in 1..Len(cache[SpineUrl(call[c].chunk)].apps) :
           ~Apparatus(cache[SpineUrl(call[c].chunk)].apps[a], a).ok

\* C11 -- parse abort: when the spine document has arrived and one of its
\* <app> elements fails to parse, the call fails in that step, still in
\* phase 1: the chunk's apparatus list and every call's array are what they
\* were (nothing of this parse attempt is kept), the chunk is not set Ready,
\* no document is requested or touched, and the failed call takes no further
\* step.
C11_ParseAbort ==
    [][\A c \in Calls :
          /\ (ParseThrows(c) /\ call'[c].pc # "awaitXML")
                => /\ call'[c].pc = "failed"
                   /\ call'[c].phase = 1
                   /\ appsOf' = appsOf
                   /\ heap' = heap
                   /\ heap'[c] = NoApps
                   /\ initialized' = initialized
                   /\ ~initialized'[call[c].chunk]
                   /\ cache' = cache
                   /\ inflight' = inflight
                   /\ requests' = requests
                   /\ mockElementCount' = mockElementCount
          /\ call[c].pc = "failed" => call'[c] = call[c]]_vars

\* a call failed at the second <app> of a spine whose first <app> parses
C11_Witness ==
    \E c \in Calls :
        /\ call[c].pc = "failed"
        /\ call[c].phase = 1
        /\ SpineUrl(call[c].chunk) \in DOMAIN cache
        /\ LET doc == cache[SpineUrl(call[c].chunk)]
           IN  /\ Len(doc.apps) = 2
               /\ Apparatus(doc.apps[1], 1).ok
               /\ ~Apparatus(doc.apps[2], 2).ok
        /\ appsOf[call[c].chunk] = 0

\* a <ptr> of the document has an enclosing <rdg> whose wit attribute,
\* without its first two characters, is the code of no edition
UnknownWitness(doc) ==
    \E a \in 1..Len(doc.apps) : \E p \in 1..Len(doc.apps[a].ptrs) :
        LET ptr == doc.apps[a].ptrs[p]
        IN  /\ ptr.parent = "rdg"
            /\ \E v \in ptr.wit : SubSeq(v, 3, Len(v)) \notin EditionCodes

\* C12 -- unknown witness is a fatal parse error: when the spine document a
\* call parses has a <ptr> whose <rdg> names a witness code of no edition,
\* parsing fails: the call fails in that step and no apparatus list is
\* assigned to the chunk.
C12_UnknownWitnessFatal ==
    [][\A c \in Calls :
          (/\ call[c].pc = "awaitXML"
           /\ call'[c].pc # "awaitXML"
           /\ ~call[c].rejected
           /\ UnknownWitness(cache[SpineUrl(call[c].chunk)]))
          => /\ call'[c].pc = "failed"
             /\ appsOf' = appsOf]_vars

\* C13 -- for every Apparatus that parsing produced, the id is non-empty and
\* every pointer's groupId is non-empty, its edition is an Edition and its
\* referencedUrl is non-empty.
C13_ParsedFieldsNonEmpty ==
    \A g \in Calls : \A a \in 1..Len(heap[g].apps) :
        /\ heap[g].apps[a].id # <<>>
        /\ \A p \in 1..Len(heap[g].objs[a]) :
               LET o == heap[g].objs[a][p]
               IN  /\ o.groupId # <<>>
                   /\ o.edition # {}
                   /\ o.referencedUrl # <<>>

\* url u is referenced by pointers of array g, all of them parsed as ranges
RangeOnly(g, u) ==
    /\ \E a \in 1..Len(heap[g].objs) : \E p \in 1..Len(heap[g].objs[a]) :
           heap[g].objs[a][p].referencedUrl = u
    /\ \A a \in 1..Len(heap[g].objs) : \A p \in 1..Len(heap[g].objs[a]) :
           heap[g].objs[a][p].referencedUrl = u
           => IsRange(heap[g].objs[a][p].parsedTarget)

\* C14 -- recoverable per-pointer errors never abort the chunk: a call (with
\* no other call in progress on its chunk) that saw the fetch of a document
\* fail which only range-expression pointers of its chunk refer to does not
\* fail.
C14_RangeFetchFailureContained ==
    \A c \in Calls :
        (call[c].solo /\ \E u \in call[c].lost : RangeOnly(c, u))
        => call[c].pc # "failed"

\* C15 -- logic-error policy in phase 6: when the loop of addBackPointers is
\* at a pointer whose dereferenced handle is unset, the call fails in that
\* step (the pointer is not skipped), and a call that has met such a pointer
\* does not set its chunk Ready.
C15_UnsetHandleRaises ==
    [][\A c \in Calls :
          (/\ call[c].pc = "bpPtr"
           /\ call[c].j <= Len(call[c].iter)
           /\ PtrAt(c).dereferenced = {}
           /\ call'[c] # call[c])
          => /\ call'[c].pc = "failed"
             /\ initialized' = initialized]_vars

\* call c is at a back-reference injection: its loop in addBackPointers is
\* at a pointer with a dereferenced handle
Injecting(c) ==
    /\ call[c].pc = "bpPtr"
    /\ call[c].j <= Len(call[c].iter)
    /\ PtrAt(c).dereferenced # {}

\* C16 -- last write wins for back-references: every injection step sets the
\* app-ref attribute of the pointer's element to the id of the apparatus
\* being processed, whatever the attribute held before, and raises no error;
\* and no other step changes an app-ref attribute.  So after any number of
\* calls, on one chunk or on several chunks sharing a witness document, an
\* element's app-ref is the id written by the injection that ran last.
C16_LastWriteWins ==
    [][/\ \A c \in Calls :
             (Injecting(c) /\ call'[c] # call[c])
             => LET h == CHOOSE h \in PtrAt(c).dereferenced : TRUE
                IN  /\ cache'[h.doc].elems[h.el].appRef = {AppsAt(c)[call[c].i].id}
                    /\ call'[c].pc # "failed"
       /\ \A x \in Elements :
             cache'[x[1]].elems[x[2]].appRef # cache[x[1]].elems[x[2]].appRef
             => \E c \in Calls :
                    /\ Injecting(c)
                    /\ running = c
                    /\ PtrAt(c).dereferenced = {[doc |-> x[1], el |-> x[2]]}]_vars

\* two calls, on two chunks, completed one after the other; apparatuses of
\* both resolve to the same element, which carries the id of the later one
C16_Witness ==
    /\ ~overlap
    /\ \E c, d \in Calls :
          /\ c < d
          /\ FullRun(c) /\ FullRun(d)
          /\ call[c].chunk # call[d].chunk
          /\ \E at \in PointersOf(c), bt \in PointersOf(d) :
                 /\ Obj(c, at).dereferenced # {}
                 /\ Obj(c, at).dereferenced = Obj(d, bt).dereferenced
                 /\ heap[c].apps[at[1]].id # heap[d].apps[bt[1]].id
                 /\ ElementOf(d, bt).appRef = {heap[d].apps[bt[1]].id}

\* sequence s is an order-preserving sub-list of sequence t (of distinct
\* entries)
SubList(s, t) == s = SelectSeq(t, LAMBDA x : \E n \in 1..Len(s) : s[n] = x)

\* the pointer list of apparatus a of array g as parsing produced it
ParsedList(g, a) == [p \in 1..Len(heap[g].objs[a]) |-> p]

\* C17 -- pointer lists only shrink: parsing gives every apparatus the list
\* of all its pointers in document order; afterwards the list is always an
\* order-preserving sub-list of that list, every change of it leaves a
\* sub-list of what it was, and it changes only in a step of the
\* range-rewrite phase of a call.
C17_ListsOnlyShrink ==
    [][\A g \in Calls :
          /\ (heap[g] = NoApps /\ heap'[g] # NoApps)
                => \A a \in 1..Len(heap'[g].apps) :
                       heap'[g].apps[a].pointers = ParsedList(g, a)'
          /\ heap[g] # NoApps
                => /\ Len(heap'[g].apps) = Len(heap[g].apps)
                   /\ \A a \in 1..Len(heap[g].apps) :
                       /\ ParsedList(g, a)' = ParsedList(g, a)
                       /\ SubList(heap'[g].apps[a].pointers, ParsedList(g, a))
                       /\ SubList(heap'[g].apps[a].pointers, heap[g].apps[a].pointers)
                       /\ heap'[g].apps[a].pointers # heap[g].apps[a].pointers
                             => \E c \in Calls : /\ running = c
                                                 /\ call[c].phase = 4
                                                 /\ call[c].apps = g
                                                 /\ call[c].i = a]_vars

\* a call is dereferencing the pointers of an apparatus that has lost some,
\* but not all, of its pointers
C17_Witness ==
    \E c \in Calls :
        /\ call[c].pc = "drPtr"
        /\ \E a \in 1..Len(heap[c].apps) :
               /\ Len(heap[c].apps[a].pointers) >= 1
               /\ Len(heap[c].apps[a].pointers) < Len(heap[c].objs[a])

\* the grammar string-range(<xpath>,<start>,<length>): a non-empty xpath and
\* two decimal numbers
InRangeGrammar(t) ==
    LET n == Len(t)
    IN  /\ n >= 7
        /\ t = <<"string-range(">> \o SubSeq(t, 2, n - 5)
                   \o <<",", t[n - 3], ",", t[n - 1], ")">>
        /\ \A d \in {t[n - 3], t[n - 1]} : d \in {"0", "1", "2", "5", "10"}

\* C18 -- frame of the range-rewrite phase: the step of phase 4 at a pointer
\* whose referencedTarget is not in the range grammar only moves on to the
\* next pointer: no pointer field, list or document (ptr target attributes
\* and witness elements included) changes, no document is requested, the
\* counter stays and the pointer is not marked invalid.  No step of any call
\* changes the referencedUrl or referencedTarget of such a pointer, and the
\* filter that ends an apparatus in phase 4 keeps every listed pointer that
\* was not marked invalid.  When a call with no other call in progress on
\* its chunk finishes phase 4, every pointer parsed with a target outside
\* the grammar is listed, has the url and target it was parsed with, and its
\* <ptr> element's target attribute is still url#target.
C18_RewriteFrame ==
    [][/\ \A c \in Calls :
             /\ (/\ call[c].pc = "rwPtr"
                 /\ call[c].j <= Len(call[c].iter)
                 /\ ~InRangeGrammar(PtrAt(c).referencedTarget)
                 /\ call'[c] # call[c])
                   => /\ heap' = heap
                      /\ cache' = cache
                      /\ mockElementCount' = mockElementCount
                      /\ requests' = requests
                      /\ inflight' = inflight
                      /\ call'[c] = [call[c] EXCEPT !.j = @ + 1,
                                                    !.seen = @ \cup {At(c)}]
             /\ (/\ call[c].pc = "rwPtr"
                 /\ call[c].j > Len(call[c].iter)
                 /\ call'[c] # call[c])
                   => \A n \in 1..Len(AppsAt(c)[call[c].i].pointers) :
                          LET p == AppsAt(c)[call[c].i].pointers[n]
                          IN  p \notin call[c].invalid
                              => \E m \in 1..Len(heap'[call[c].apps].apps[call[c].i].pointers) :
                                     heap'[call[c].apps].apps[call[c].i].pointers[m] = p
             /\ (call[c].pc # "awaitRewrite" /\ call'[c].pc = "awaitRewrite" /\ call[c].solo)
                   => \A a \in 1..Len(heap[c].objs) : \A p \in 1..Len(heap[c].objs[a]) :
                          LET o == heap'[c].objs[a][p]
                          IN  ~InRangeGrammar(o.parsedTarget)
                              => /\ <<a, p>> \in PointersOf(c)'
                                 /\ o.referencedTarget = o.parsedTarget
                                 /\ cache'[SpineUrl(call[c].chunk)].apps[a].ptrs[p].target
                                        = {o.referencedUrl \o <<"#">> \o o.referencedTarget}
       /\ \A g \in Calls : \A a \in 1..Len(heap[g].objs) : \A p \in 1..Len(heap[g].objs[a]) :
             ~InRangeGrammar(heap[g].objs[a][p].referencedTarget)
             => /\ heap'[g].objs[a][p].referencedUrl = heap[g].objs[a][p].referencedUrl
                /\ heap'[g].objs[a][p].referencedTarget = heap[g].objs[a][p].referencedTarget]_vars

\* a call finished phase 4 after dropping a range pointer and rewriting
\* another, with a pointer to a plain id before them left as parsed
C18_Witness ==
    \E c \in Calls :
        /\ call[c].pc = "awaitRewrite"
        /\ call[c].solo
        /\ mockElementCount = 1
        /\ Len(heap[c].objs[1]) = 3
        /\ heap[c].objs[1][1].parsedTarget = <<"a">>
        /\ heap[c].objs[1][1].referencedTarget = <<"a">>
        /\ heap[c].objs[1][3].referencedTarget = <<"mock-id-", "0">>
        /\ heap[c].apps[1].pointers = <<1, 3>>

\* C19 -- Ready implies resolved under re-entrant initialization: when a
\* call that overlapped with another call on its chunk has completed and the
\* chunk is Ready, every pointer listed in the chunk's current apparatus
\* list has its dereferenced handle set and its element carries the id of
\* the pointer's apparatus as app-ref.
C19_ReadyImpliesResolved ==
    \A c \in Calls :
        (FullRun(c) /\ ~call[c].solo /\ initialized[call[c].chunk])
        => LET g == appsOf[call[c].chunk]
           IN  \A at \in PointersOf(g) :
                   /\ Obj(g, at).dereferenced # {}
                   /\ ElementOf(g, at).appRef = {heap[g].apps[at[1]].id}

\* call d is a retry of call c: c failed in the dereference phase after its
\* range-rewrite phase had rewritten a pointer, and d, the next call, was
\* made on the same chunk after c had failed and has parsed the spine again
RetryOf(c, d) ==
    /\ d = c + 1
    /\ call[c].solo /\ call[d].solo
    /\ call[c].chunk = call[d].chunk
    /\ call[c].pc = "failed"
    /\ call[c].phase = 5
    /\ \E a \in 1..Len(heap[c].objs) : \E p \in 1..Len(heap[c].objs[a]) :
           heap[c].objs[a][p].referencedTarget # heap[c].objs[a][p].parsedTarget
    /\ call[d].phase >= 2

\* C20 -- retry after a fatal failure sees the same references: the retry
\* parses, for every <ptr> element, the referencedUrl the first attempt
\* parsed, and the urls it requests in phase 3 are those the first attempt
\* requested.
C20_RetrySeesSameReferences ==
    \A c, d \in Calls :
        RetryOf(c, d)
        => /\ Len(heap[d].objs) = Len(heap[c].objs)
           /\ \A a \in 1..Len(heap[c].objs) :
                  /\ Len(heap[d].objs[a]) = Len(heap[c].objs[a])
                  /\ \A p \in 1..Len(heap[c].objs[a]) :
                         heap[d].objs[a][p].referencedUrl = heap[c].objs[a][p].referencedUrl
           /\ call[d].phase >= 3 => call[d].urls = call[c].urls

====
